---- MODULE Spec2Model ----
(***************************************************************************)
(* A model of parse_flops, the compute-value normalizer of                 *)
(* ai-compute-timeline/src/ai_compute_timeline.py.                         *)
(*                                                                         *)
(* A string is a sequence of characters; a character is a one-letter TLA+  *)
(* string.  One extra element, NINES, stands for a run of 4301 characters  *)
(* "9" kept as a single element of the sequence, so that digit strings     *)
(* longer than CPython's integer-conversion limit can be told apart from   *)
(* short ones without building them.                                       *)
(*                                                                         *)
(* Numbers are exact decimals m * 10^e.  float() is modelled with IEEE     *)
(* double overflow (to inf) and with zero; rounding of the mantissa is not *)
(* modelled.  np.sqrt of a finite positive product is kept symbolic.       *)
(***************************************************************************)
EXTENDS Integers, Sequences, FiniteSets, TLC

VARIABLES
  \* one call of parse_flops: its argument, what it returned, the line that
  \* returned it, and whether it has been called
  value, result, at, pc,
  \* the same call made by the Plotly script's copy of parse_flops
  plotly_result, plotly_pc,
  \* the two chart scripts: the rows of the CSV file, each script's list
  \* `records`, the static script's list `all_records`, each script's position
  rows, records, all_records, static_pc, plotly_records, chart_pc,
  \* build_all.py: main's position and loop index, build_plot's locals,
  \* main's totals, the child process, what run_script last returned,
  \* the exit status of the driver, and a tally of what happened so far
  build_pc, plot_idx, scripts, script_idx, success, failed,
  total_success, total_failed, child, last, exit_status, tally

parse_vars == <<value, result, at, pc>>

copy_vars == <<plotly_result, plotly_pc>>

chart_vars == <<rows, records, all_records, static_pc, plotly_records, chart_pc>>

build_vars == <<build_pc, plot_idx, scripts, script_idx, success, failed,
                total_success, total_failed, child, last, exit_status, tally>>

vars == <<parse_vars, copy_vars, chart_vars, build_vars>>

-----------------------------------------------------------------------------
(* Bounds of the model *)

\* largest number of fragments an input string is put together from
MaxLen == 3

\* largest number of blanks put in front of an input string
MaxPad == 1

-----------------------------------------------------------------------------
(* Characters and words *)

NINES == "9{4301}"

\* the en dash, U+2013
EN_DASH == "U+2013"

RUN_LENGTH == 4301

SPECULATIVE == <<"S","p","e","c","u","l","a","t","i","v","e">>

HIGH_COMPUTE == <<"H","i","g","h"," ","c","o","m","p","u","t","e">>

PROXY == <<"P","r","o","x","y">>

LOW == <<"l","o","w">>

FEW == <<"f","e","w">>

NA == <<"N","/","A">>

\* the pieces input strings are put together from
Fragments ==
  { SPECULATIVE, HIGH_COMPUTE, PROXY, LOW, <<"L","o","w">>, FEW, NA,
    <<">">>, <<"~">>, <<"-">>, <<EN_DASH>>, <<"+">>, <<".">>,
    <<" ">>, <<"e">>, <<"E">>, <<"0">>, <<"1">>,
    <<"2","e","3">>, <<"1","e","5">>, <<"4","E","+","6">>, <<NINES>> }

RECURSIVE Concat(_)
Concat(fs) == IF fs = <<>> THEN <<>> ELSE Head(fs) \o Concat(Tail(fs))

RECURSIVE Blanks(_)
Blanks(n) == IF n = 0 THEN <<>> ELSE <<" ">> \o Blanks(n - 1)

FragmentSeqs == UNION { [1..n -> Fragments] : n \in 0..MaxLen }

Inputs == { Blanks(p) \o Concat(fs) : p \in 0..MaxPad, fs \in FragmentSeqs }

-----------------------------------------------------------------------------
(* str methods *)

IsSpace(c) == c = " "

RECURSIVE lstrip(_)
lstrip(s) == IF s # <<>> /\ IsSpace(Head(s)) THEN lstrip(Tail(s)) ELSE s

RECURSIVE rstrip(_)
rstrip(s) ==
  IF s # <<>> /\ IsSpace(s[Len(s)]) THEN rstrip(SubSeq(s, 1, Len(s) - 1)) ELSE s

strip(s) == rstrip(lstrip(s))

lower_char(c) ==
  CASE c = "S" -> "s" [] c = "H" -> "h" [] c = "P" -> "p" [] c = "L" -> "l"
    [] c = "E" -> "e" [] c = "N" -> "n" [] c = "A" -> "a" [] OTHER -> c

\* lower() forgotten: the string as it is
lower_as_is(s) == s

lower(s) == [i \in 1..Len(s) |-> lower_char(s[i])]

\* w in s
Contains(s, w) ==
  \E i \in 1..(Len(s) - Len(w) + 1) : SubSeq(s, i, i + Len(w) - 1) = w

startswith(s, w) == Len(s) >= Len(w) /\ SubSeq(s, 1, Len(w)) = w

-----------------------------------------------------------------------------
(* Numbers *)

None == [k |-> "none"]

\* an exception leaves the call
Raised == [k |-> "raise"]

FZero == [k |-> "zero"]

FInf == [k |-> "inf"]

FNaN == [k |-> "nan"]

\* m * 10^e, m > 0 not divisible by 10
Fin(m, e) == [k |-> "fin", m |-> m, e |-> e]

\* the square root of m * 10^e
Root(m, e) == [k |-> "sqrt", m |-> m, e |-> e]

RECURSIVE Pow10(_)
Pow10(n) == IF n = 0 THEN 1 ELSE 10 * Pow10(n - 1)

RECURSIVE NumDigits(_)
NumDigits(m) == IF m < 10 THEN 1 ELSE 1 + NumDigits(m \div 10)

RECURSIVE Normal(_, _)
Normal(m, e) == IF m % 10 = 0 THEN Normal(m \div 10, e + 1) ELSE Fin(m, e)

\* DBL_MAX = 1.7976931348623157e308: its power of ten and its first nine digits
DBL_MAX_10_EXP == 308

DBL_MAX_LEAD == 179769313

\* m * 10^e, m > 0, is beyond the largest double
Overflows(m, e) ==
  LET n == Normal(m, e)
      d == NumDigits(n.m)
      sci == n.e + d - 1
  IN  \/ sci > DBL_MAX_10_EXP
      \/ sci = DBL_MAX_10_EXP /\ n.m * Pow10(9 - d) > DBL_MAX_LEAD

\* the double nearest to m * 10^e
ToDouble(m, e) ==
  IF m = 0 THEN FZero ELSE IF Overflows(m, e) THEN FInf ELSE Normal(m, e)

\* low * high on doubles
Mul(a, b) ==
  CASE a.k = "nan" \/ b.k = "nan" -> FNaN
    [] a.k = "zero" /\ b.k = "inf" -> FNaN
    [] a.k = "inf" /\ b.k = "zero" -> FNaN
    [] a.k = "zero" \/ b.k = "zero" -> FZero
    [] a.k = "inf" \/ b.k = "inf" -> FInf
    [] OTHER -> ToDouble(a.m * b.m, a.e + b.e)

\* the whole numbers up to the square root of any m of as many digits
Roots(m) == 1..Pow10((NumDigits(m) + 1) \div 2)

\* np.sqrt: exact for a perfect square, kept as a root otherwise
sqrt(x) ==
  IF x.k # "fin" THEN x
  ELSE IF x.e % 2 = 0 /\ \E r \in Roots(x.m) : r * r = x.m
       THEN Fin(CHOOSE r \in Roots(x.m) : r * r = x.m, x.e \div 2)
       ELSE Root(x.m, x.e)

-----------------------------------------------------------------------------
(* float() and int() of matched text *)

Digit == {"0","1","2","3","4","5","6","7","8","9"}

IsDigit(c) == c \in Digit \/ c = NINES

DigitVal(c) ==
  CASE c = "0" -> 0 [] c = "1" -> 1 [] c = "2" -> 2 [] c = "3" -> 3
    [] c = "4" -> 4 [] c = "5" -> 5 [] c = "6" -> 6 [] c = "7" -> 7
    [] c = "8" -> 8 [] c = "9" -> 9

RECURSIVE DigitsToNat(_)
DigitsToNat(ds) ==
  IF ds = <<>> THEN 0
  ELSE 10 * DigitsToNat(SubSeq(ds, 1, Len(ds) - 1)) + DigitVal(ds[Len(ds)])

HasRun(ds) == \E i \in 1..Len(ds) : ds[i] = NINES

\* number of characters of a digit string
RECURSIVE DigitCount(_)
DigitCount(ds) ==
  IF ds = <<>> THEN 0
  ELSE (IF Head(ds) = NINES THEN RUN_LENGTH ELSE 1) + DigitCount(Tail(ds))

AllZero(ds) == \A i \in 1..Len(ds) : ds[i] = "0" \/ ds[i] = "."

\* sys.int_info.default_max_str_digits
MAX_STR_DIGITS == 4300

\* float(f"{g1}e{g2}") for g1 matching \d+\.?\d* and g2 matching \d+
float_of(g1, g2) ==
  LET dots == {i \in 1..Len(g1) : g1[i] = "."}
      dot == IF dots = {} THEN Len(g1) + 1 ELSE CHOOSE i \in dots : TRUE
      ip == SubSeq(g1, 1, dot - 1)
      fp == SubSeq(g1, dot + 1, Len(g1))
      runs == {i \in 1..Len(fp) : fp[i] = NINES}
      first == CHOOSE i \in runs : \A j \in runs : i <= j
  IN  IF AllZero(g1) THEN FZero
      ELSE IF HasRun(ip) \/ HasRun(g2) THEN FInf
      ELSE IF runs # {}
        \* a fraction ending in thousands of nines rounds up to the next decimal
        THEN ToDouble(DigitsToNat(ip \o SubSeq(fp, 1, first - 1)) + 1,
                      DigitsToNat(g2) - (first - 1))
      ELSE ToDouble(DigitsToNat(ip \o fp), DigitsToNat(g2) - Len(fp))

\* 3 * 10**int(g): an int, exact at any size, unless int() refuses the text
three_pow10(g) ==
  IF DigitCount(g) > MAX_STR_DIGITS THEN Raised
  ELSE Fin(3, DigitsToNat(g))

-----------------------------------------------------------------------------
(* re.search *)

NoMatch == [ok |-> FALSE]

RECURSIVE SpanDigits(_, _)
\* the index after the longest run of digits that starts at i
SpanDigits(s, i) ==
  IF i <= Len(s) /\ IsDigit(s[i]) THEN SpanDigits(s, i + 1) ELSE i

\* \d+\.?\d* at i: the index after it, 0 when it does not match
MantissaEnd(s, i) ==
  LET j == SpanDigits(s, i)
  IN  IF j = i THEN 0
      ELSE IF j <= Len(s) /\ s[j] = "." THEN SpanDigits(s, j + 1) ELSE j

\* (\d+\.?\d*)E\+?(\d+) at i, E one of es, the \+? only when plus
TokenAt(s, i, es, plus) ==
  LET m == MantissaEnd(s, i)
      p == IF plus /\ m + 1 <= Len(s) /\ s[m + 1] = "+" THEN m + 2 ELSE m + 1
      x == SpanDigits(s, p)
  IN  IF m # 0 /\ m <= Len(s) /\ s[m] \in es /\ x > p
      THEN [ok |-> TRUE, g1 |-> SubSeq(s, i, m - 1), g2 |-> SubSeq(s, p, x - 1),
            end |-> x]
      ELSE NoMatch

\* the letters "e" matches under re.IGNORECASE, and the class [eE]
EorE == {"e", "E"}

\* (\d+\.?\d*)e(\d+)[-\u2013](\d+\.?\d*)e(\d+) at i, re.IGNORECASE
RangeAt(s, i) ==
  LET a == TokenAt(s, i, EorE, FALSE)
      b == TokenAt(s, a.end + 1, EorE, FALSE)
  IN  IF a.ok /\ a.end <= Len(s) /\ s[a.end] \in {"-", EN_DASH} /\ b.ok
      THEN [ok |-> TRUE, g1 |-> a.g1, g2 |-> a.g2, g3 |-> b.g1, g4 |-> b.g2]
      ELSE NoMatch

\* e(\d+) at i, re.IGNORECASE
ExponentAt(s, i) ==
  LET x == SpanDigits(s, i + 1)
  IN  IF s[i] \in EorE /\ x > i + 1
      THEN [ok |-> TRUE, g1 |-> SubSeq(s, i + 1, x - 1)]
      ELSE NoMatch

\* ~?(\d+\.?\d*)E\+?(\d+) at i
TildeTokenAt(s, i, es, plus) ==
  LET t == TokenAt(s, i + 1, es, plus)
  IN  IF s[i] = "~" /\ t.ok THEN t ELSE TokenAt(s, i, es, plus)

\* the leftmost match of a pattern in s
search(At(_, _), s) ==
  LET hits == {i \in 1..Len(s) : At(s, i).ok}
  IN  IF hits = {} THEN NoMatch
      ELSE At(s, CHOOSE i \in hits : \A j \in hits : i <= j)

\* line 32, 43, 59: (\d+\.?\d*)e(\d+), re.IGNORECASE
PlainTokenAt(s, i) == TokenAt(s, i, EorE, FALSE)

\* the class [eE] of line 70 written as a plain e
match_start_lowercase(s) ==
  IF s = <<>> THEN NoMatch ELSE TildeTokenAt(s, 1, {"e"}, FALSE)

\* line 70: ^~?(\d+\.?\d*)[eE](\d+)
match_start(s) == IF s = <<>> THEN NoMatch ELSE TildeTokenAt(s, 1, EorE, FALSE)

\* the class [eE] of line 75 written as a plain E
PlusTokenAt_upper_only(s, i) == TokenAt(s, i, {"E"}, TRUE)

\* the \+? of line 75 forgotten
PlusTokenAt_no_plus(s, i) == TokenAt(s, i, EorE, FALSE)

\* line 75: (\d+\.?\d*)[eE]\+?(\d+)
PlusTokenAt(s, i) == TokenAt(s, i, EorE, TRUE)

\* line 80: ~?(\d+\.?\d*)e(\d+)\+?, re.IGNORECASE; the closing \+? binds no group
TrailingPlusAt(s, i) == TildeTokenAt(s, i, EorE, FALSE)

-----------------------------------------------------------------------------
(* parse_flops *)

Return(v, line) == [ret |-> v, line |-> line]

\* lines 69-84
parse_plain(v) ==
  LET m8 == match_start(v)
      m9 == search(PlusTokenAt, v)
      m10 == search(TrailingPlusAt, v)
  IN  IF m8.ok THEN Return(float_of(m8.g1, m8.g2), 72)
      ELSE IF m9.ok THEN Return(float_of(m9.g1, m9.g2), 77)
      ELSE IF m10.ok THEN Return(float_of(m10.g1, m10.g2), 82)
      ELSE Return(None, 84)

\* the test for "few" left out
parse_few_unconditional(v) ==
  LET m == search(ExponentAt, v)
  IN  IF m.ok THEN Return(three_pow10(m.g1), 67) ELSE parse_plain(v)

\* lines 63-67, then the rest
parse_few(v) ==
  LET m == search(ExponentAt, v)
  IN  IF Contains(lower(v), FEW) /\ m.ok THEN Return(three_pow10(m.g1), 67)
      ELSE parse_plain(v)

\* unknown returned when the extraction behind a ">" fails
parse_bound_no_fallthrough(v) ==
  LET m == search(PlainTokenAt, v)
  IN  IF startswith(v, <<">">>)
      THEN IF m.ok THEN Return(float_of(m.g1, m.g2), 61) ELSE Return(None, 61)
      ELSE parse_few(v)

\* the "few" rule tried before the ">" rule
parse_bound_after_few(v) ==
  LET f == search(ExponentAt, v)
      m == search(PlainTokenAt, v)
  IN  IF Contains(lower(v), FEW) /\ f.ok THEN Return(three_pow10(f.g1), 67)
      ELSE IF startswith(v, <<">">>) /\ m.ok THEN Return(float_of(m.g1, m.g2), 61)
      ELSE parse_plain(v)

\* the ">" rule left out
parse_bound_left_out(v) == parse_few(v)

\* lines 57-61, then the rest
parse_bound(v) ==
  LET m == search(PlainTokenAt, v)
  IN  IF startswith(v, <<">">>) /\ m.ok THEN Return(float_of(m.g1, m.g2), 61)
      ELSE parse_few(v)

\* the low end of the range returned in place of the geometric mean
parse_range_low_end(v) ==
  LET r == search(RangeAt, v)
  IN  IF r.ok THEN Return(float_of(r.g1, r.g2), 55) ELSE parse_bound(v)

\* lines 50-55, then the rest
parse_range(v) ==
  LET r == search(RangeAt, v)
  IN  IF r.ok
      THEN Return(sqrt(Mul(float_of(r.g1, r.g2), float_of(r.g3, r.g4))), 55)
      ELSE parse_bound(v)

\* the token of a Proxy string ignored
parse_proxy_no_token(v) ==
  IF Contains(v, PROXY)
  THEN IF Contains(lower(v), LOW) THEN Return(Fin(1, 6), 47)
       ELSE Return(Fin(1, 3), 48)
  ELSE parse_range(v)

\* lines 41-48, then the rest
parse_proxy(v) ==
  LET m == search(PlainTokenAt, v)
  IN  IF Contains(v, PROXY)
      THEN IF m.ok THEN Return(float_of(m.g1, m.g2), 45)
           ELSE IF Contains(lower(v), LOW) THEN Return(Fin(1, 6), 47)
           ELSE Return(Fin(1, 3), 48)
      ELSE parse_range(v)

\* the Proxy rule tried before the High-compute rule
parse_high_after_proxy(v) ==
  IF ~Contains(v, PROXY) /\ (Contains(v, HIGH_COMPUTE) \/ v = SPECULATIVE)
  THEN Return(Fin(1, 21), 39)
  ELSE parse_proxy(v)

\* lines 37-39, then the rest
parse_high(v) ==
  IF Contains(v, HIGH_COMPUTE) \/ v = SPECULATIVE THEN Return(Fin(1, 21), 39)
  ELSE parse_proxy(v)

\* the whole test of line 37 made before the test of line 30
parse_speculative_behind_high(v) ==
  LET m == search(PlainTokenAt, v)
  IN  IF Contains(v, HIGH_COMPUTE) \/ v = SPECULATIVE THEN Return(Fin(1, 21), 39)
      ELSE IF Contains(v, SPECULATIVE)
      THEN IF m.ok THEN Return(float_of(m.g1, m.g2), 34)
           ELSE Return(Fin(1, 27), 35)
      ELSE parse_proxy(v)

\* the High-compute rule tried before the Speculative rule
parse_speculative_after_high(v) ==
  LET m == search(PlainTokenAt, v)
  IN  IF Contains(v, HIGH_COMPUTE) THEN Return(Fin(1, 21), 39)
      ELSE IF Contains(v, SPECULATIVE)
      THEN IF m.ok THEN Return(float_of(m.g1, m.g2), 34)
           ELSE Return(Fin(1, 27), 35)
      ELSE parse_high(v)

\* the token of a Speculative string ignored
parse_speculative_no_token(v) ==
  IF Contains(v, SPECULATIVE) THEN Return(Fin(1, 27), 35) ELSE parse_high(v)

\* lines 30-35, then the rest
parse_speculative(v) ==
  LET m == search(PlainTokenAt, v)
  IN  IF Contains(v, SPECULATIVE)
      THEN IF m.ok THEN Return(float_of(m.g1, m.g2), 34)
           ELSE Return(Fin(1, 27), 35)
      ELSE parse_high(v)

\* the first test of the function left out
parse_flops_unguarded(raw) == parse_speculative(strip(raw))

\* the value parse_flops returns and the line that returns it
parse_flops(raw) ==
  IF raw = <<>> \/ raw = NA THEN Return(None, 26)
  ELSE parse_speculative(strip(raw))

-----------------------------------------------------------------------------
(* parse_flops of ai_compute_timeline_plotly.py, translated from its own text. *)
(* Only the values are kept; the regular expressions are the ones above, as    *)
(* both files spell them the same way.                                         *)

\* the exponent rule of lines 56-59 tried before the ">" rule of lines 52-55
plotly_parse_rest_few_first(v) ==
  LET bound == search(PlainTokenAt, v)
      few == search(ExponentAt, v)
      anchored == match_start(v)
      plus == search(PlusTokenAt, v)
      trailing == search(TrailingPlusAt, v)
  IN  CASE Contains(lower(v), FEW) /\ few.ok -> three_pow10(few.g1)
        [] startswith(v, <<">">>) /\ bound.ok -> float_of(bound.g1, bound.g2)
        [] OTHER ->
             IF anchored.ok THEN float_of(anchored.g1, anchored.g2)
             ELSE IF plus.ok THEN float_of(plus.g1, plus.g2)
             ELSE IF trailing.ok THEN float_of(trailing.g1, trailing.g2)
             ELSE None

\* lines 52-69 of the Plotly script: the rules behind the range rule
plotly_parse_rest(v) ==
  LET bound == search(PlainTokenAt, v)
      few == search(ExponentAt, v)
      anchored == match_start(v)
      plus == search(PlusTokenAt, v)
      trailing == search(TrailingPlusAt, v)
  IN  CASE startswith(v, <<">">>) /\ bound.ok -> float_of(bound.g1, bound.g2)
        [] OTHER ->
             IF Contains(lower(v), FEW) /\ few.ok THEN three_pow10(few.g1)
             ELSE IF anchored.ok THEN float_of(anchored.g1, anchored.g2)
             ELSE IF plus.ok THEN float_of(plus.g1, plus.g2)
             ELSE IF trailing.ok THEN float_of(trailing.g1, trailing.g2)
             ELSE None

\* lines 28-69 of the Plotly script
plotly_parse_flops(raw) ==
  LET v == strip(raw)
      token == search(PlainTokenAt, v)
      range_match == search(RangeAt, v)
  IN  IF raw = <<>> \/ raw = NA THEN None
      ELSE IF Contains(v, SPECULATIVE)
      THEN IF token.ok THEN float_of(token.g1, token.g2) ELSE Fin(1, 27)
      ELSE IF Contains(v, HIGH_COMPUTE) \/ v = SPECULATIVE THEN Fin(1, 21)
      ELSE IF Contains(v, PROXY)
      THEN IF token.ok THEN float_of(token.g1, token.g2)
           ELSE IF Contains(lower(v), LOW) THEN Fin(1, 6)
           ELSE Fin(1, 3)
      ELSE IF range_match.ok
      THEN sqrt(Mul(float_of(range_match.g1, range_match.g2),
                    float_of(range_match.g3, range_match.g4)))
      ELSE plotly_parse_rest(v)

-----------------------------------------------------------------------------
(* The chart scripts: parse_data and the placeholder code of the two charts *)

\* largest number of rows of the CSV file
MaxRows == 2

\* the years on both sides of every bucket boundary
Years == {1944, 1945, 1959, 1960, 1979, 1980, 1999, 2000, 2009, 2010}

\* str(row['Compute_FLOPs']) of an empty cell, of a cell with a value, of a
\* cell whose value is 0.0, and of a cell on which parse_flops raises
RawValues ==
  { <<"n","a","n">>, <<"2","e","3">>, <<"0","e","0">>, FEW \o <<"e", NINES>> }

Row == [year : Years, flops_raw : RawValues]

Tables == UNION { [1..n -> Row] : n \in 0..MaxRows }

\* the record parse_data makes of the i-th row; `event` names the row
record_of(df, i, flops) ==
  [year |-> df[i].year, event |-> i, flops_raw |-> df[i].flops_raw,
   flops |-> flops]

\* what parse_data hands to main: the list, or nothing when parse_flops
\* raised on one of the rows and the exception left parse_data
parsed_records(rs) ==
  IF \E i \in 1..Len(rs) : rs[i].flops = Raised
  THEN [ok |-> FALSE, records |-> <<>>]
  ELSE [ok |-> TRUE, records |-> rs]

\* parse_data of the static script: one record per row, in the order of the rows
parse_data(df) ==
  parsed_records([i \in 1..Len(df) |->
                    record_of(df, i, parse_flops(df[i].flops_raw).ret)])

\* parse_data of the Plotly script
plotly_parse_data(df) ==
  parsed_records([i \in 1..Len(df) |->
                    record_of(df, i, plotly_parse_flops(df[i].flops_raw))])

\* the first bucket closed at 1945 in place of open
proxy_value_1945_inside(year) ==
  IF year <= 1945 THEN Fin(1, 2)
  ELSE IF year < 1960 THEN Fin(1, 4)
  ELSE IF year < 1980 THEN Fin(1, 6)
  ELSE IF year < 2000 THEN Fin(1, 8)
  ELSE IF year < 2010 THEN Fin(1, 10)
  ELSE Fin(1, 12)

\* the if/elif chain of the static script
proxy_value(year) ==
  IF year < 1945 THEN Fin(1, 2)
  ELSE IF year < 1960 THEN Fin(1, 4)
  ELSE IF year < 1980 THEN Fin(1, 6)
  ELSE IF year < 2000 THEN Fin(1, 8)
  ELSE IF year < 2010 THEN Fin(1, 10)
  ELSE Fin(1, 12)

\* the if/elif chain of the Plotly script
plotly_proxy_value(year) ==
  CASE year < 1945 -> Fin(1, 2)
    [] year >= 1945 /\ year < 1960 -> Fin(1, 4)
    [] year >= 1960 /\ year < 1980 -> Fin(1, 6)
    [] year >= 1980 /\ year < 2000 -> Fin(1, 8)
    [] year >= 2000 /\ year < 2010 -> Fin(1, 10)
    [] OTHER -> Fin(1, 12)

has_flops(r) == r.flops # None

has_no_flops(r) == r.flops = None

RECURSIVE insert_by_year(_, _)
\* r put in front of the first record of rs whose year is not smaller
insert_by_year(r, rs) ==
  IF rs = <<>> \/ r.year <= Head(rs).year THEN <<r>> \o rs
  ELSE <<Head(rs)>> \o insert_by_year(r, Tail(rs))

RECURSIVE sort_by_year(_)
\* list.sort(key=year): ascending, records of one year keep their order
sort_by_year(rs) ==
  IF rs = <<>> THEN <<>> ELSE insert_by_year(Head(rs), sort_by_year(Tail(rs)))

\* the placeholder written into the records that have no value
assign_proxy(Proxy(_), rs) ==
  [i \in 1..Len(rs) |->
     IF rs[i].flops = None THEN [rs[i] EXCEPT !.flops = Proxy(rs[i].year)]
     ELSE rs[i]]

\* the records without a value left out of the chart
create_timeline_plot_with_only(rs) ==
  LET records_with_flops == SelectSeq(rs, has_flops)
  IN  [records |-> assign_proxy(proxy_value, rs),
       all_records |-> sort_by_year(records_with_flops)]

\* create_timeline_plot: the two lists share their records with `records`, so
\* the placeholders show in `records` as well; all_records is the sorted list
create_timeline_plot(rs) ==
  LET records_with_flops == SelectSeq(rs, has_flops)
      records_without_flops == assign_proxy(proxy_value, SelectSeq(rs, has_no_flops))
  IN  [records |-> assign_proxy(proxy_value, rs),
       all_records |-> sort_by_year(records_with_flops \o records_without_flops)]

\* create_plotly_chart: placeholders written in place, the list sorted in place
create_plotly_chart(rs) == sort_by_year(assign_proxy(plotly_proxy_value, rs))

-----------------------------------------------------------------------------
(* build_all.py *)

PLOT_DIRS ==
  << "ai-compute-timeline", "adoption-timeline", "energetic-scaling",
     "civilization-scaling", "energy-leverage-per-person" >>

\* largest number of *.py files in one src/ directory
MaxScripts == 2

\* what main finds for a plot directory: nothing, a directory without src/,
\* or a src/ directory with so many *.py files
Layouts ==
  { [dir |-> FALSE, src |-> FALSE, n |-> 0], [dir |-> TRUE, src |-> FALSE, n |-> 0] }
    \cup { [dir |-> TRUE, src |-> TRUE, n |-> k] : k \in 0..MaxScripts }

\* the return codes a child exits with
ReturnCodes == {0, 1, 2}

\* how subprocess.run ends: the child exited by itself, the timeout expired
\* (the child is killed), or starting the child raised an exception
Exited(rc) == [kind |-> "exited", returncode |-> rc]

TimeoutExpired == [kind |-> "timeout"]

LaunchError == [kind |-> "exception"]

\* what run_script hands to its caller
Returns(b) == [raised |-> FALSE, ret |-> b]

Propagates == [raised |-> TRUE, ret |-> FALSE]

\* the except clause for subprocess.TimeoutExpired returning True
run_script_timeout_passes(outcome) ==
  CASE outcome.kind = "exited" -> Returns(outcome.returncode = 0)
    [] outcome.kind = "timeout" -> Returns(TRUE)
    [] outcome.kind = "exception" -> Returns(FALSE)

\* the last except clause left out
run_script_uncaught(outcome) ==
  CASE outcome.kind = "exited" -> Returns(outcome.returncode = 0)
    [] outcome.kind = "timeout" -> Returns(FALSE)
    [] outcome.kind = "exception" -> Propagates

\* run_script, from the way subprocess.run ended
run_script(outcome) ==
  CASE outcome.kind = "exited" -> Returns(outcome.returncode = 0)
    [] outcome.kind = "timeout" -> Returns(FALSE)
    [] outcome.kind = "exception" -> Returns(FALSE)

\* lines 52-56 of build_plot: the sorted list of the scripts found, by their
\* rank in file-name order; none without a src/ directory
glob_scripts(layout) ==
  IF ~(layout.dir /\ layout.src) THEN <<>> ELSE [i \in 1..layout.n |-> i]

\* a failed script left uncounted
count_result_passes_only(ret, s, f) == IF ret THEN <<s + 1, f>> ELSE <<s, f>>

\* lines 64-69 of build_plot: the two counters after one script
count_result(ret, s, f) == IF ret THEN <<s + 1, f>> ELSE <<s, f + 1>>

NoCall == [outcome |-> [kind |-> "none"], raised |-> FALSE, ret |-> FALSE]

NoTally == [found |-> 0, calls |-> 0, passed |-> 0, not_passed |-> 0,
            run |-> <<>>, seen |-> [dir |-> FALSE, src |-> FALSE, n |-> 0]]

-----------------------------------------------------------------------------
(* The state machines *)

ParseIdle == value = <<>> /\ result = None /\ at = 0 /\ pc = "idle"

CopyIdle == plotly_result = None /\ plotly_pc = "idle"

ChartIdle ==
  /\ rows = <<>> /\ records = <<>> /\ all_records = <<>> /\ plotly_records = <<>>
  /\ static_pc = "idle" /\ chart_pc = "idle"

BuildIdle ==
  /\ build_pc = "idle" /\ plot_idx = 1 /\ scripts = <<>> /\ script_idx = 1
  /\ success = 0 /\ failed = 0 /\ total_success = 0 /\ total_failed = 0
  /\ child = "none" /\ last = NoCall /\ exit_status = -1 /\ tally = NoTally

(* one call of parse_flops on one input *)

Init ==
  /\ value \in Inputs
  /\ result = None
  /\ at = 0
  /\ pc = "call"
  /\ CopyIdle /\ ChartIdle /\ BuildIdle

Call ==
  /\ pc = "call"
  /\ LET r == parse_flops(value)
     IN  /\ result' = r.ret
         /\ at' = r.line
  /\ pc' = "done"
  /\ UNCHANGED <<value, copy_vars, chart_vars, build_vars>>

Next == Call

Spec == Init /\ [][Next]_vars

(* the same input given to both copies of parse_flops; build_plot runs the *)
(* static script before the Plotly script                                  *)

InitCopies ==
  /\ value \in Inputs
  /\ result = None
  /\ at = 0
  /\ pc = "call"
  /\ plotly_result = None
  /\ plotly_pc = "call"
  /\ ChartIdle /\ BuildIdle

CallPlotly ==
  /\ pc = "done"
  /\ plotly_pc = "call"
  /\ plotly_result' = plotly_parse_flops(value)
  /\ plotly_pc' = "done"
  /\ UNCHANGED <<parse_vars, chart_vars, build_vars>>

NextCopies == Call \/ CallPlotly

SpecCopies == InitCopies /\ [][NextCopies]_vars

(* the two chart scripts, each run once on the same CSV file: main calls *)
(* parse_data and then the function that builds the chart                *)

InitChart ==
  /\ rows \in Tables
  /\ records = <<>>
  /\ all_records = <<>>
  /\ plotly_records = <<>>
  /\ static_pc = "start"
  /\ chart_pc = "start"
  /\ ParseIdle /\ CopyIdle /\ BuildIdle

\* main of the static script goes on with the list, or ends on the exception
StaticParsed(parsed) ==
  /\ records' = parsed.records
  /\ static_pc' = IF parsed.ok THEN "parsed" ELSE "crashed"

\* main of the Plotly script goes on with the list, or ends on the exception
PlotlyParsed(parsed) ==
  /\ plotly_records' = parsed.records
  /\ chart_pc' = IF parsed.ok THEN "parsed" ELSE "crashed"

\* line 474 of the static script; an exception of parse_flops ends the script
StaticParseData ==
  /\ static_pc = "start"
  /\ StaticParsed(parse_data(rows))
  /\ UNCHANGED <<rows, all_records, plotly_records, chart_pc>>
  /\ UNCHANGED <<parse_vars, copy_vars, build_vars>>

\* line 478 of the static script
CreateTimelinePlot ==
  /\ static_pc = "parsed"
  /\ records' = create_timeline_plot(records).records
  /\ all_records' = create_timeline_plot(records).all_records
  /\ static_pc' = "built"
  /\ UNCHANGED <<rows, plotly_records, chart_pc>>
  /\ UNCHANGED <<parse_vars, copy_vars, build_vars>>

\* line 325 of the Plotly script
PlotlyParseData ==
  /\ chart_pc = "start"
  /\ PlotlyParsed(plotly_parse_data(rows))
  /\ UNCHANGED <<rows, records, all_records, static_pc>>
  /\ UNCHANGED <<parse_vars, copy_vars, build_vars>>

\* line 328 of the Plotly script
CreatePlotlyChart ==
  /\ chart_pc = "parsed"
  /\ plotly_records' = create_plotly_chart(plotly_records)
  /\ chart_pc' = "built"
  /\ UNCHANGED <<rows, records, all_records, static_pc>>
  /\ UNCHANGED <<parse_vars, copy_vars, build_vars>>

NextChart ==
  StaticParseData \/ CreateTimelinePlot \/ PlotlyParseData \/ CreatePlotlyChart

SpecChart == InitChart /\ [][NextChart]_vars

(* build_all.py: main, build_plot and run_script, one child at a time *)

InitBuild ==
  /\ build_pc = "main"
  /\ plot_idx = 1
  /\ scripts = <<>>
  /\ script_idx = 1
  /\ success = 0
  /\ failed = 0
  /\ total_success = 0
  /\ total_failed = 0
  /\ child = "none"
  /\ last = NoCall
  /\ exit_status = -1
  /\ tally = NoTally
  /\ ParseIdle /\ CopyIdle /\ ChartIdle

\* a directory that is missing or has no src/ counted as a failure
MainSkip_counted_failed ==
  /\ build_pc = "main"
  /\ plot_idx <= Len(PLOT_DIRS)
  /\ \E layout \in Layouts :
       /\ ~(layout.dir /\ layout.src)
       /\ tally' = [tally EXCEPT !.seen = layout]
  /\ plot_idx' = plot_idx + 1
  /\ total_failed' = total_failed + 1
  /\ UNCHANGED <<build_pc, scripts, script_idx, success, failed, total_success,
                 child, last, exit_status>>
  /\ UNCHANGED <<parse_vars, copy_vars, chart_vars>>

\* lines 83-93 of main: a directory that is missing or has no src/ is skipped
MainSkip ==
  /\ build_pc = "main"
  /\ plot_idx <= Len(PLOT_DIRS)
  /\ \E layout \in Layouts :
       /\ ~(layout.dir /\ layout.src)
       /\ tally' = [tally EXCEPT !.seen = layout]
  /\ plot_idx' = plot_idx + 1
  /\ UNCHANGED <<build_pc, scripts, script_idx, success, failed, total_success,
                 total_failed, child, last, exit_status>>
  /\ UNCHANGED <<parse_vars, copy_vars, chart_vars>>

\* lines 83-96 of main and 52-58 of build_plot: the scripts of src/ are listed
MainBuild ==
  /\ build_pc = "main"
  /\ plot_idx <= Len(PLOT_DIRS)
  /\ \E layout \in Layouts :
       /\ layout.dir /\ layout.src
       /\ scripts' = glob_scripts(layout)
       /\ tally' = [tally EXCEPT !.found = @ + Len(glob_scripts(layout)),
                                 !.run = [i \in 1..Len(glob_scripts(layout)) |-> 0],
                                 !.seen = layout]
  /\ script_idx' = 1
  /\ success' = 0
  /\ failed' = 0
  /\ build_pc' = "build_plot"
  /\ UNCHANGED <<plot_idx, total_success, total_failed, child, last, exit_status>>
  /\ UNCHANGED <<parse_vars, copy_vars, chart_vars>>

\* the tally with one more call of run_script, for the script at script_idx
Started(t) == [t EXCEPT !.calls = @ + 1, !.run[script_idx] = @ + 1]

\* run_script has ended with this outcome: lines 36-47, then lines 64-69 of
\* build_plot; an exception that leaves run_script ends the driver
AfterRunScript(outcome, t) ==
  LET r == run_script(outcome)
      counted == count_result(r.ret, success, failed)
  IN  /\ last' = [outcome |-> outcome, raised |-> r.raised, ret |-> r.ret]
      /\ tally' = [t EXCEPT
                     !.passed = IF outcome = Exited(0) THEN @ + 1 ELSE @,
                     !.not_passed = IF outcome = Exited(0) THEN @ ELSE @ + 1]
      /\ IF r.raised
         THEN /\ build_pc' = "crashed"
              /\ exit_status' = 1
              /\ UNCHANGED <<success, failed, script_idx>>
         ELSE /\ build_pc' = "build_plot"
              /\ success' = counted[1]
              /\ failed' = counted[2]
              /\ script_idx' = script_idx + 1
              /\ UNCHANGED exit_status

\* lines 60-62 and 28: the next script is started as a child process
Launch ==
  /\ build_pc = "build_plot"
  /\ script_idx <= Len(scripts)
  /\ child' = "running"
  /\ build_pc' = "run_script"
  /\ tally' = Started(tally)
  /\ UNCHANGED <<plot_idx, scripts, script_idx, success, failed, total_success,
                 total_failed, last, exit_status>>
  /\ UNCHANGED <<parse_vars, copy_vars, chart_vars>>

\* lines 60-62, 28 and 45-47: starting the child raises an exception
LaunchFails ==
  /\ build_pc = "build_plot"
  /\ script_idx <= Len(scripts)
  /\ AfterRunScript(LaunchError, Started(tally))
  /\ UNCHANGED <<plot_idx, scripts, total_success, total_failed, child>>
  /\ UNCHANGED <<parse_vars, copy_vars, chart_vars>>

\* lines 28-40: the child exits before the timeout
ChildExits ==
  /\ build_pc = "run_script"
  /\ child = "running"
  /\ child' = "none"
  /\ \E rc \in ReturnCodes : AfterRunScript(Exited(rc), tally)
  /\ UNCHANGED <<plot_idx, scripts, total_success, total_failed>>
  /\ UNCHANGED <<parse_vars, copy_vars, chart_vars>>

\* the timeout never expires
Timeout_never ==
  /\ FALSE
  /\ UNCHANGED vars

\* the child left running when the timeout expires
Timeout_child_not_killed ==
  /\ build_pc = "run_script"
  /\ child = "running"
  /\ AfterRunScript(TimeoutExpired, tally)
  /\ UNCHANGED <<plot_idx, scripts, total_success, total_failed, child>>
  /\ UNCHANGED <<parse_vars, copy_vars, chart_vars>>

\* lines 28-33 and 42-44: the child is still running after 120 seconds;
\* subprocess.run kills it and raises TimeoutExpired
Timeout ==
  /\ build_pc = "run_script"
  /\ child = "running"
  /\ child' = "none"
  /\ AfterRunScript(TimeoutExpired, tally)
  /\ UNCHANGED <<plot_idx, scripts, total_success, total_failed>>
  /\ UNCHANGED <<parse_vars, copy_vars, chart_vars>>

\* the totals with one plot's counts added
add_totals(ts, tf, s, f) == <<ts + s, tf + f>>

\* line 71 of build_plot and lines 96-98 of main
BuildPlotReturn ==
  /\ build_pc = "build_plot"
  /\ script_idx > Len(scripts)
  /\ LET totals == add_totals(total_success, total_failed, success, failed)
     IN  /\ total_success' = totals[1]
         /\ total_failed' = totals[2]
  /\ plot_idx' = plot_idx + 1
  /\ build_pc' = "main"
  /\ UNCHANGED <<scripts, script_idx, success, failed, child, last, exit_status,
                 tally>>
  /\ UNCHANGED <<parse_vars, copy_vars, chart_vars>>

\* the test of line 104 left out: main always ends normally
MainEnd_always_normal ==
  /\ build_pc = "main"
  /\ plot_idx > Len(PLOT_DIRS)
  /\ exit_status' = 0
  /\ build_pc' = "ended"
  /\ UNCHANGED <<plot_idx, scripts, script_idx, success, failed, total_success,
                 total_failed, child, last, tally>>
  /\ UNCHANGED <<parse_vars, copy_vars, chart_vars>>

\* lines 100-105 of main: the summary, then the exit status
MainEnd ==
  /\ build_pc = "main"
  /\ plot_idx > Len(PLOT_DIRS)
  /\ exit_status' = IF total_failed > 0 THEN 1 ELSE 0
  /\ build_pc' = "ended"
  /\ UNCHANGED <<plot_idx, scripts, script_idx, success, failed, total_success,
                 total_failed, child, last, tally>>
  /\ UNCHANGED <<parse_vars, copy_vars, chart_vars>>

NextBuild ==
  \/ MainSkip \/ MainBuild \/ Launch \/ LaunchFails \/ ChildExits \/ Timeout
  \/ BuildPlotReturn \/ MainEnd

SpecBuild == InitBuild /\ [][NextBuild]_vars

\* the steps the driver takes by itself: it is never held up between two
\* statements, and a started child is either waited for or cut off
DriverStep ==
  MainSkip \/ MainBuild \/ Launch \/ LaunchFails \/ BuildPlotReturn \/ MainEnd

\* the driver keeps running, and the 120 seconds of line 33 run out while the
\* child is still there; nothing makes a child exit by itself
FairSpecBuild == SpecBuild /\ WF_vars(DriverStep) /\ WF_vars(Timeout)

-----------------------------------------------------------------------------
(* What the specification says: tokens, ranges and the cascade of its rules. *)
(* Tokens are recognised here by a scanner that reads the string once.       *)

\* the scanner is: 0 before the mantissa, 1 in its whole digits, 2 behind its
\* point, 3 behind the e, 5 behind the "+", 4 in the exponent digits
RECURSIVE RefScan(_, _, _, _, _, _)
RefScan(s, i, q, acc, es, plus) ==
  IF i > Len(s) THEN acc
  ELSE LET c == s[i]
       IN  CASE q \in {0, 1} /\ IsDigit(c) -> RefScan(s, i + 1, 1, acc, es, plus)
             [] q = 1 /\ c = "." -> RefScan(s, i + 1, 2, acc, es, plus)
             [] q = 2 /\ IsDigit(c) -> RefScan(s, i + 1, 2, acc, es, plus)
             [] q \in {1, 2} /\ c \in es ->
                  RefScan(s, i + 1, 3, [acc EXCEPT !.e = i], es, plus)
             [] q = 3 /\ plus /\ c = "+" -> RefScan(s, i + 1, 5, acc, es, plus)
             [] q \in {3, 5} /\ IsDigit(c) ->
                  RefScan(s, i + 1, 4, [acc EXCEPT !.x = i, !.last = i], es, plus)
             [] q = 4 /\ IsDigit(c) ->
                  RefScan(s, i + 1, 4, [acc EXCEPT !.last = i], es, plus)
             [] OTHER -> acc

\* the longest token mantissa, e, exponent that starts at i: where its e, its
\* first and its last exponent digit are; last = 0 when no token starts at i
RefToken(s, i, es, plus) ==
  RefScan(s, i, 0, [from |-> i, e |-> 0, x |-> 0, last |-> 0], es, plus)

RefStarts(s, es, plus) == {i \in 1..Len(s) : RefToken(s, i, es, plus).last > 0}

RefHasToken(s, es, plus) == RefStarts(s, es, plus) # {}

\* the leftmost token of s
RefFirst(s, es, plus) ==
  RefToken(s, CHOOSE i \in RefStarts(s, es, plus) :
                \A j \in RefStarts(s, es, plus) : i <= j, es, plus)

\* mantissa * 10^exponent of a token
RefValue(s, t) == float_of(SubSeq(s, t.from, t.e - 1), SubSeq(s, t.x, t.last))

AnyE == {"e", "E"}

\* the places where a closed range "A e X - B e Y" starts
RefRangeStarts(s) ==
  {i \in 1..Len(s) :
     LET a == RefToken(s, i, AnyE, FALSE)
     IN  /\ a.last > 0
         /\ a.last + 1 <= Len(s)
         /\ s[a.last + 1] \in {"-", EN_DASH}
         /\ RefToken(s, a.last + 2, AnyE, FALSE).last > 0}

RefHasRange(s) == RefRangeStarts(s) # {}

\* sqrt(low * high) of the leftmost range of s
RefGeoMean(s) ==
  LET i == CHOOSE i \in RefRangeStarts(s) : \A j \in RefRangeStarts(s) : i <= j
      a == RefToken(s, i, AnyE, FALSE)
      b == RefToken(s, a.last + 2, AnyE, FALSE)
  IN  sqrt(Mul(RefValue(s, a), RefValue(s, b)))

\* s contains w in any letter case
RefContainsAnyCase(s, w) ==
  \E i \in 1..(Len(s) - Len(w) + 1) :
     \A j \in 1..Len(w) : lower_char(s[i + j - 1]) = lower_char(w[j])

\* the digits behind the first e or E that has digits behind it
RefExponentStarts(s) ==
  {i \in 1..(Len(s) - 1) : s[i] \in AnyE /\ IsDigit(s[i + 1])}

RefFewValue(s) ==
  LET i == CHOOSE i \in RefExponentStarts(s) :
             \A j \in RefExponentStarts(s) : i <= j
  IN  three_pow10(SubSeq(s, i + 1, SpanDigits(s, i + 1) - 1))

\* rules 8 to 11 of the specification
RefRules8to11(s) ==
  LET t8 == RefToken(s, IF s # <<>> /\ s[1] = "~" THEN 2 ELSE 1, {"e"}, FALSE)
  IN  IF s # <<>> /\ t8.last > 0 THEN RefValue(s, t8)
      ELSE IF RefHasToken(s, AnyE, TRUE) THEN RefValue(s, RefFirst(s, AnyE, TRUE))
      ELSE IF RefHasToken(s, AnyE, FALSE) THEN RefValue(s, RefFirst(s, AnyE, FALSE))
      ELSE None

\* the eleven rules of the specification, the first that matches decides
RefCascade(s) ==
  IF s = <<>> \/ s = NA THEN None
  ELSE IF Contains(s, SPECULATIVE)
    THEN IF RefHasToken(s, AnyE, FALSE) THEN RefValue(s, RefFirst(s, AnyE, FALSE))
         ELSE Fin(1, 27)
  ELSE IF Contains(s, HIGH_COMPUTE) \/ s = SPECULATIVE THEN Fin(1, 21)
  ELSE IF Contains(s, PROXY)
    THEN IF RefHasToken(s, AnyE, FALSE) THEN RefValue(s, RefFirst(s, AnyE, FALSE))
         ELSE IF RefContainsAnyCase(s, LOW) THEN Fin(1, 6)
         ELSE Fin(1, 3)
  ELSE IF RefHasRange(s) THEN RefGeoMean(s)
  ELSE IF s[1] = ">" /\ RefHasToken(s, AnyE, FALSE)
    THEN RefValue(s, RefFirst(s, AnyE, FALSE))
  ELSE IF RefContainsAnyCase(s, FEW) /\ RefExponentStarts(s) # {} THEN RefFewValue(s)
  ELSE RefRules8to11(s)

\* s without the blanks at its two ends
RefTrimmed(s) ==
  LET inked == {i \in 1..Len(s) : s[i] # " "}
  IN  IF inked = {} THEN <<>>
      ELSE SubSeq(s, CHOOSE i \in inked : \A j \in inked : i <= j,
                     CHOOSE i \in inked : \A j \in inked : i >= j)

IsNumber(r) == r.k \in {"zero", "inf", "nan", "fin", "sqrt"}

IsFinitePositive(r) == r.k \in {"fin", "sqrt"}

NoQualifier(s) ==
  /\ ~Contains(s, SPECULATIVE)
  /\ ~Contains(s, HIGH_COMPUTE)
  /\ ~Contains(s, PROXY)

Done == pc = "done"

-----------------------------------------------------------------------------
(* The claims *)

\* C1: parse_flops is total and never raises: every call completes and
\* returns a number or the unknown marker, whatever the input string.
C1_NeverRaises == Done => result = None \/ IsNumber(result)

\* C2: whatever parse_flops returns is the unknown marker or a finite number
\* strictly greater than zero, never zero, infinite or not-a-number.
C2_FinitePositive ==
  Done /\ result # Raised => result = None \/ IsFinitePositive(result)

C4_SpeculativeBeforeHigh ==
  Done /\ Contains(value, SPECULATIVE) /\ Contains(value, HIGH_COMPUTE)
    => /\ at \in {34, 35}
       /\ result = IF RefHasToken(value, AnyE, FALSE)
                   THEN RefValue(value, RefFirst(value, AnyE, FALSE))
                   ELSE Fin(1, 27)
       /\ value = SPECULATIVE \o <<" ">> \o HIGH_COMPUTE => result = Fin(1, 27)

C4_Witness ==
  /\ Done
  /\ value = SPECULATIVE \o <<" ">> \o HIGH_COMPUTE
  /\ result = Fin(1, 27)

\* C5: the empty string and the literal "N/A" yield the unknown marker, by
\* the first return of the function, before any other rule is tried.
C5_UnknownInputs == Done /\ value \in {<<>>, NA} => result = None /\ at = 26

C5_Witness == Done /\ value = NA /\ result = None /\ at = 26

\* C6: a string that contains "Speculative" yields the value of its first
\* token digits[.digits]e digits (e in either case) when it has one, and 1e27
\* when it has none.
C6_Speculative ==
  Done /\ Contains(value, SPECULATIVE)
    => result = IF RefHasToken(value, AnyE, FALSE)
                THEN RefValue(value, RefFirst(value, AnyE, FALSE))
                ELSE Fin(1, 27)

\* "Speculative1e52e3", where tokens start at "1e52", "52e3" and "2e3": the
\* first one is returned
C6_Witness ==
  /\ Done
  /\ value = SPECULATIVE \o <<"1","e","5">> \o <<"2","e","3">>
  /\ result = Fin(1, 52)

\* C7: a string that contains "High compute" and not "Speculative" yields
\* 1e21, whatever tokens, "Proxy" or range it also contains.
C7_HighCompute ==
  Done /\ Contains(value, HIGH_COMPUTE) /\ ~Contains(value, SPECULATIVE)
    => result = Fin(1, 21)

\* "High compute" together with "Proxy" and a token
C7_Witness ==
  /\ Done
  /\ Contains(value, HIGH_COMPUTE)
  /\ Contains(value, PROXY)
  /\ RefHasToken(value, AnyE, FALSE)
  /\ result = Fin(1, 21)

\* C8: a string that contains "Proxy" and neither "Speculative" nor "High
\* compute" yields the value of its first token when it has one, else 1e6
\* when it contains "low" in any letter case, else 1e3.
C8_Proxy ==
  Done /\ Contains(value, PROXY) /\ ~Contains(value, SPECULATIVE)
       /\ ~Contains(value, HIGH_COMPUTE)
    => result = IF RefHasToken(value, AnyE, FALSE)
                THEN RefValue(value, RefFirst(value, AnyE, FALSE))
                ELSE IF RefContainsAnyCase(value, LOW) THEN Fin(1, 6)
                ELSE Fin(1, 3)

\* "Proxy" with a capitalised "Low" and no token
C8_Witness ==
  /\ Done
  /\ Contains(value, PROXY)
  /\ Contains(value, <<"L","o","w">>)
  /\ result = Fin(1, 6)

\* C9: a string without a qualifier word that contains a closed range, two
\* tokens with a hyphen or an en dash between them, yields the geometric mean
\* sqrt(low * high) of the two ends of its first range.
C9_Range ==
  Done /\ NoQualifier(value) /\ RefHasRange(value) => result = RefGeoMean(value)

\* the range 2e3-1e5, whose geometric mean sqrt(2e8) is neither end
C9_Witness ==
  /\ Done
  /\ value = <<"2","e","3">> \o <<"-">> \o <<"1","e","5">>
  /\ result = Root(2, 8)

\* C10: a string that starts with ">" followed by a token, with no qualifier
\* word and no range in it, yields the value of that token.
C10_LowerBound ==
  Done /\ NoQualifier(value) /\ ~RefHasRange(value)
       /\ value # <<>> /\ value[1] = ">"
       /\ RefToken(value, 2, AnyE, FALSE).last > 0
    => result = RefValue(value, RefToken(value, 2, AnyE, FALSE))

\* ">1e5" followed by "few": the token after the ">" is returned
C10_Witness ==
  /\ Done
  /\ value = <<">">> \o <<"1","e","5">> \o FEW
  /\ result = Fin(1, 5)

\* the digits behind the first e or E of s that has digits behind it
RefFirstExponent(s) ==
  LET i == CHOOSE i \in RefExponentStarts(s) :
             \A j \in RefExponentStarts(s) : i <= j
  IN  SubSeq(s, i + 1, SpanDigits(s, i + 1) - 1)

\* no rule before the "few" rule decides s
ReachesFew(s) ==
  /\ s # <<>> /\ s # NA
  /\ NoQualifier(s)
  /\ ~RefHasRange(s)
  /\ ~(startswith(RefTrimmed(s), <<">">>) /\ RefHasToken(s, AnyE, FALSE))

\* C11: a string that contains "few" in any letter case and reaches the "few"
\* rule yields 3 * 10^X, X the first digit sequence that directly follows an
\* e or E of the string.
C11_Few ==
  Done /\ ReachesFew(value) /\ RefContainsAnyCase(value, FEW)
       /\ RefExponentStarts(value) # {}
    => /\ result.k = "fin"
       /\ result.m = 3
       /\ ~HasRun(RefFirstExponent(value))
            => result.e = DigitsToNat(RefFirstExponent(value))

\* C12: a string without qualifier word, range, leading ">" or "few" that
\* contains a token mantissa, e or E, optional "+", digits yields the value of
\* its leftmost such token; here the ">" is looked for at the very start of
\* the string.
C12_GenericOnInput ==
  Done /\ NoQualifier(value) /\ ~RefHasRange(value)
       /\ ~startswith(value, <<">">>)
       /\ ~RefContainsAnyCase(value, FEW)
       /\ RefHasToken(value, AnyE, TRUE)
    => result = RefValue(value, RefFirst(value, AnyE, TRUE))

\* C12, amended: the same, for a string whose first character that is not a
\* blank is not ">".
C12_Generic ==
  Done /\ NoQualifier(value) /\ ~RefHasRange(value)
       /\ ~startswith(RefTrimmed(value), <<">">>)
       /\ ~RefContainsAnyCase(value, FEW)
       /\ RefHasToken(value, AnyE, TRUE)
    => result = RefValue(value, RefFirst(value, AnyE, TRUE))

\* "4E+6", a token with a "+" that only the rule of line 75 reads
C12_Witness ==
  /\ Done
  /\ value = <<"4","E","+","6">>
  /\ at = 77
  /\ result = Fin(4, 6)

\* s begins with a token that text follows
LeadingToken(s) ==
  /\ s # <<>>
  /\ RefToken(s, 1, AnyE, FALSE).last > 0
  /\ RefToken(s, 1, AnyE, FALSE).last < Len(s)

\* C13: a string that begins with a token followed by free text yields the
\* value of that token, whatever the text behind it says.
C13_TrailingTextIgnored ==
  Done /\ LeadingToken(value)
    => result = RefValue(value, RefToken(value, 1, AnyE, FALSE))

\* C13, amended: a string that begins with a token followed by free text
\* yields the value of that token when the string contains neither "High
\* compute" nor "few" (in any letter case) nor a range.
C13_TrailingText ==
  Done /\ LeadingToken(value)
       /\ ~Contains(value, HIGH_COMPUTE)
       /\ ~RefContainsAnyCase(value, FEW)
       /\ ~RefHasRange(value)
    => result = RefValue(value, RefToken(value, 1, AnyE, FALSE))

\* "2e3" with the word "Proxy" behind it
C13_Witness ==
  /\ Done
  /\ value = <<"2","e","3">> \o <<" ">> \o PROXY
  /\ result = Fin(2, 3)

\* a "few" of s has an e or E with digits somewhere behind it
FewThenExponent(s) ==
  \E i \in 1..(Len(s) - 2) :
     /\ \A j \in 1..3 : lower_char(s[i + j - 1]) = FEW[j]
     /\ \E x \in RefExponentStarts(s) : x > i + 2

\* C14: a string without qualifier word, without token and without a "few"
\* followed by an exponent yields the unknown marker.
C14_UnresolvableLiteral ==
  Done /\ NoQualifier(value) /\ ~RefHasToken(value, AnyE, TRUE)
       /\ ~FewThenExponent(value)
    => result = None

\* C14, amended: a string without qualifier word and without token that does
\* not contain both a "few" (in any letter case) and, anywhere, an e or E
\* directly followed by a digit yields the unknown marker.
C14_Unresolvable ==
  Done /\ NoQualifier(value) /\ ~RefHasToken(value, AnyE, TRUE)
       /\ ~(RefContainsAnyCase(value, FEW) /\ RefExponentStarts(value) # {})
    => result = None

\* "-e0": an exponent without mantissa and without "few"
C14_Witness ==
  /\ Done
  /\ value = <<"-", "e", "0">>
  /\ at = 84
  /\ result = None

\* what the rules behind the ">" rule make of s
RefLaterRules(s) ==
  IF RefContainsAnyCase(s, FEW) /\ RefExponentStarts(s) # {} THEN RefFewValue(s)
  ELSE RefRules8to11(s)

\* C20: when a string starts with ">" and the extraction of the ">" rule
\* fails, parse_flops does not return there: the result is that of the later
\* rules ("few", start-anchored token, generic notation) on the same string.
C20_BoundFallsThrough ==
  Done /\ NoQualifier(value) /\ startswith(value, <<">">>)
       /\ ~RefHasToken(value, AnyE, FALSE)
    => at # 61 /\ result = RefLaterRules(value)

\* ">4E+6": no token for the ">" rule, a number by the rule of line 75
C20_Witness ==
  /\ Done
  /\ value = <<">">> \o <<"4","E","+","6">>
  /\ at = 77
  /\ result = Fin(4, 6)

\* the table of placeholders: the first bucket whose upper year is above
\* the record's year decides, 1e12 when there is none
RefBuckets ==
  << [below |-> 1945, flops |-> Fin(1, 2)], [below |-> 1960, flops |-> Fin(1, 4)],
     [below |-> 1980, flops |-> Fin(1, 6)], [below |-> 2000, flops |-> Fin(1, 8)],
     [below |-> 2010, flops |-> Fin(1, 10)] >>

RefPlaceholder(year) ==
  LET open == {i \in 1..Len(RefBuckets) : year < RefBuckets[i].below}
  IN  IF open = {} THEN Fin(1, 12)
      ELSE RefBuckets[CHOOSE i \in open : \A j \in open : i <= j].flops

\* parse_flops returned unknown for the row this record was made from
WasUnknown(r) == parse_flops(rows[r.event].flops_raw).ret = None

\* no record of the list is unknown, and the records that were unknown hold
\* the placeholder of their year
Replaced(rs) ==
  \A i \in 1..Len(rs) :
    /\ rs[i].flops # None
    /\ WasUnknown(rs[i]) => rs[i].flops = RefPlaceholder(rs[i].year)

\* C16: for every input string the static script's parse_flops and the
\* Plotly script's parse_flops end the same way: the same number, unknown
\* both, or an exception both
C16_CopiesAgree == plotly_pc = "done" => plotly_result = result

C16_Witness ==
  /\ plotly_pc = "done"
  /\ value = <<">">> \o FEW \o <<"1","e","5">>
  /\ result = Fin(1, 5)
  /\ plotly_result = Fin(1, 5)

\* C17: once a chart script has built its chart, none of its records has an
\* unknown flops value, every record for which parse_flops returned unknown
\* holds the placeholder of its year's bucket, and the two scripts give the
\* same placeholder to the same year
C17_Placeholders ==
  /\ static_pc = "built" => Replaced(all_records) /\ Replaced(records)
  /\ chart_pc = "built" => Replaced(plotly_records)
  /\ static_pc = "built" /\ chart_pc = "built" =>
       \A i \in 1..Len(all_records) : \A j \in 1..Len(plotly_records) :
         ( /\ WasUnknown(all_records[i]) /\ WasUnknown(plotly_records[j])
           /\ all_records[i].year = plotly_records[j].year )
         => all_records[i].flops = plotly_records[j].flops

C17_Witness ==
  /\ static_pc = "built"
  /\ chart_pc = "built"
  /\ Len(all_records) = 2
  /\ all_records[1].year = 1945 /\ all_records[1].flops = Fin(1, 4)
  /\ WasUnknown(all_records[1])
  /\ all_records[2].year = 2010 /\ all_records[2].flops = Fin(1, 12)
  /\ WasUnknown(all_records[2])
  /\ plotly_records = all_records

\* C18: inside build_plot every script before the loop's position has been
\* given to run_script exactly once and counted exactly once, none behind it
\* has been run, so that success + failed is the number of scripts found when
\* the loop ends; when main ends its totals are the numbers of children that
\* passed and that did not, over all the directories built
C18_EveryScriptCounted ==
  /\ build_pc \in {"build_plot", "run_script"} =>
       /\ success + failed = script_idx - 1
       /\ \A i \in 1..Len(scripts) :
            tally.run[i] = IF i < script_idx \/ (i = script_idx /\ build_pc = "run_script")
                           THEN 1 ELSE 0
  /\ build_pc = "build_plot" /\ script_idx > Len(scripts) =>
       success + failed = Len(scripts)
  /\ build_pc \in {"main", "ended"} =>
       /\ total_success = tally.passed
       /\ total_failed = tally.not_passed
       /\ total_success + total_failed = tally.found
       /\ tally.calls = tally.found

C18_Witness ==
  /\ build_pc = "ended"
  /\ tally.found = 3
  /\ total_success = 2
  /\ total_failed = 1

\* C19: run_script never lets an exception reach build_plot, and it returns
\* True exactly when the child exited with return code 0: False after the
\* timeout and False when the launch raised
C19_OnlyExitZeroPasses ==
  /\ build_pc # "crashed"
  /\ last.outcome.kind # "none" =>
       /\ ~last.raised
       /\ last.ret <=> last.outcome = Exited(0)

C19_Witness ==
  /\ build_pc = "build_plot"
  /\ last.outcome = TimeoutExpired
  /\ last.ret = FALSE
  /\ failed = 1

\* no rule before the start-anchored rule decides s
ReachesPlain(s) ==
  /\ ReachesFew(s)
  /\ ~(RefContainsAnyCase(s, FEW) /\ RefExponentStarts(s) # {})

\* where the token of the start-anchored rule starts: behind a leading "~"
AnchorStart(s) == IF s # <<>> /\ s[1] = "~" THEN 2 ELSE 1

\* s, trimmed, starts (behind an optional "~") with a token without "+"
\* whose letter is one of es
AnchoredToken(s, es) ==
  RefToken(RefTrimmed(s), AnchorStart(RefTrimmed(s)), es, FALSE).last > 0

\* C21: a string that reaches the start-anchored rule and whose leading
\* token is written with an uppercase E is not decided by that rule (line
\* 72) but by the next one (line 77).
C21_AnchoredLowercaseOnly ==
  Done /\ ReachesPlain(value) /\ AnchoredToken(value, {"E"})
    => at # 72 /\ at = 77

\* C21, amended: the start-anchored rule reads e and E alike: a string that
\* reaches it and starts, behind an optional "~", with a token written with
\* e or E and no "+" is decided by line 72, with the value of that token.
C21_AnchoredEitherCase ==
  Done /\ ReachesPlain(value) /\ AnchoredToken(value, AnyE)
    => /\ at = 72
       /\ result = RefValue(RefTrimmed(value),
                            RefToken(RefTrimmed(value),
                                     AnchorStart(RefTrimmed(value)), AnyE, FALSE))

\* "1E0": an uppercase token at the start, returned by line 72
C21_Witness ==
  /\ Done
  /\ value = <<"1", "E", "0">>
  /\ at = 72
  /\ result = Fin(1, 0)

\* C22: the last pattern rule never returns: line 82 is never the line that
\* returns, and a call that gets as far as that rule returns unknown, for
\* the string then holds no token in either letter case.
C22_LastRuleNeverDecides ==
  Done => /\ at # 82
          /\ at = 84 => /\ result = None
                         /\ ~RefHasToken(value, AnyE, FALSE)

\* "1e+": the last rule is reached and finds no exponent digits
C22_Witness ==
  /\ Done
  /\ value = <<"1", "e", "+">>
  /\ at = 84
  /\ result = None

\* C23: in both copies the exact string "Speculative" yields 1e27, by the
\* Speculative rule, and 1e21 is returned only for a string that contains
\* "High compute" (no token of the model's inputs is worth 1e21).
C23_ExactSpeculative ==
  /\ Done =>
       /\ RefTrimmed(value) = SPECULATIVE => result = Fin(1, 27) /\ at = 35
       /\ at = 39 => Contains(value, HIGH_COMPUTE)
       /\ result = Fin(1, 21) => Contains(value, HIGH_COMPUTE)
  /\ plotly_pc = "done" =>
       /\ RefTrimmed(value) = SPECULATIVE => plotly_result = Fin(1, 27)
       /\ plotly_result = Fin(1, 21) => Contains(value, HIGH_COMPUTE)

\* the exact string, with a blank in front that strip removes
C23_Witness ==
  /\ plotly_pc = "done"
  /\ value = <<" ">> \o SPECULATIVE
  /\ at = 35
  /\ result = Fin(1, 27)
  /\ plotly_result = Fin(1, 27)

\* the list of a built chart holds one record for every row and no other,
\* each with the year and text of its row, in ascending order of the years
SameRecords(rs) ==
  /\ Len(rs) = Len(rows)
  /\ \A e \in 1..Len(rows) : Cardinality({i \in 1..Len(rs) : rs[i].event = e}) = 1
  /\ \A i \in 1..Len(rs) :
       /\ rs[i].event \in 1..Len(rows)
       /\ rs[i].year = rows[rs[i].event].year
       /\ rs[i].flops_raw = rows[rs[i].event].flops_raw
  /\ \A i \in 1..Len(rs) : \A j \in i..Len(rs) : rs[i].year <= rs[j].year

\* every record for which parse_flops returned a number still holds it
NumbersKept(rs) ==
  \A i \in 1..Len(rs) :
    ~WasUnknown(rs[i]) => rs[i].flops = parse_flops(rs[i].flops_raw).ret

\* C24: building a chart changes the flops value of no record for which
\* parse_flops returned a number, and the list the chart is drawn from
\* (all_records in the static script, records in the Plotly script) holds
\* every record of parse_data exactly once, sorted by year.
C24_OnlyUnknownReplaced ==
  /\ static_pc = "built" =>
       /\ SameRecords(all_records) /\ NumbersKept(all_records)
       /\ NumbersKept(records)
       /\ \A i \in 1..Len(records) : records[i].event = i
  /\ chart_pc = "built" =>
       SameRecords(plotly_records) /\ NumbersKept(plotly_records)

\* a year with a record without a value in front of one whose value is 0.0
C24_Witness ==
  /\ static_pc = "built"
  /\ chart_pc = "built"
  /\ Len(rows) = 2
  /\ rows[1] = [year |-> 1960, flops_raw |-> <<"n","a","n">>]
  /\ rows[2] = [year |-> 1960, flops_raw |-> <<"0","e","0">>]
  /\ all_records[1].event = 2 /\ all_records[1].flops = FZero
  /\ all_records[2].event = 1 /\ all_records[2].flops = Fin(1, 6)
  /\ plotly_records[1].event = 1 /\ plotly_records[2].flops = FZero

\* main has printed the summary and ended
Ended == build_pc = "ended"

\* C25: main ends with exit status 1 exactly when at least one child did not
\* pass (and was counted as failed); it ends with status 0 when all passed
\* or none was started, and it does not exit before the summary.
C25_ExitStatus ==
  /\ Ended => /\ exit_status \in {0, 1}
              /\ exit_status = 1 <=> tally.not_passed > 0
              /\ exit_status = 1 <=> total_failed > 0
  /\ ~Ended => exit_status = -1

\* one child was cut off by the timeout, none passed: status 1
C25_Witness ==
  /\ Ended
  /\ exit_status = 1
  /\ tally.calls = 1
  /\ total_failed = 1
  /\ last.outcome = TimeoutExpired

\* a step on which a child is found not to have passed
CountsFailure == tally'.not_passed = tally.not_passed + 1

\* C26: a step that counts a script as failed goes on with the next script of
\* the same directory, without ending the driver; and once a script has
\* failed, main still comes to its end with every directory visited and
\* every script that was found run.
C26_FailureDoesNotStop ==
  /\ [][CountsFailure =>
          /\ build_pc' = "build_plot"
          /\ script_idx' = script_idx + 1
          /\ failed' = failed + 1
          /\ scripts' = scripts /\ plot_idx' = plot_idx
          /\ exit_status' = -1]_vars
  /\ (tally.not_passed > 0) ~>
       (Ended /\ plot_idx = Len(PLOT_DIRS) + 1 /\ tally.calls = tally.found)

\* the first script failed to start, the last one passed, main has ended
C26_Witness ==
  /\ Ended
  /\ tally.found = 4
  /\ total_failed = 1
  /\ total_success = 3
  /\ last.outcome = Exited(0)

\* a step on which run_script is called
StartsScript == tally'.calls = tally.calls + 1

\* C27: a child runs only while main waits in run_script; a script is started
\* only when no child is running, and it is the first script, in ascending
\* file-name order, of the directory's list that has not been run; the
\* directories are taken one after the other in the order of PLOT_DIRS, the
\* next one only when every script of the one before has been run.
C27_OneAtATimeInOrder ==
  /\ [](child = "running" => build_pc = "run_script")
  /\ [](\A j \in 1..(Len(scripts) - 1) : scripts[j] < scripts[j + 1])
  /\ [][StartsScript =>
          /\ child = "none"
          /\ plot_idx' = plot_idx
          /\ \A j \in 1..Len(scripts) :
               tally.run[j] = IF scripts[j] < scripts[script_idx] THEN 1 ELSE 0]_vars
  /\ [][/\ plot_idx' \in {plot_idx, plot_idx + 1}
        /\ plot_idx' = plot_idx + 1 =>
             /\ child = "none"
             /\ build_pc = "build_plot" =>
                  \A j \in 1..Len(scripts) : tally.run[j] = 1]_vars

\* the second script of the second directory runs, the first has ended
C27_Witness ==
  /\ child = "running"
  /\ plot_idx = 2
  /\ script_idx = 2
  /\ tally.run = <<1, 1>>
  /\ tally.calls = 2

\* a step of main's loop that finds the directory missing or without src/
FindsNoSrc ==
  /\ build_pc = "main"
  /\ plot_idx <= Len(PLOT_DIRS)
  /\ ~(tally'.seen.dir /\ tally'.seen.src)

\* C28: when main finds a listed directory missing or without src/, it goes
\* on with the next directory: no script is started, the totals and the
\* counts stay as they are, the driver does not exit; and when nothing but
\* such directories is found, main ends with status 0.
C28_SkippedDirectory ==
  /\ [][FindsNoSrc =>
          /\ plot_idx' = plot_idx + 1
          /\ build_pc' = "main"
          /\ tally'.calls = tally.calls /\ tally'.found = tally.found
          /\ total_success' = total_success /\ total_failed' = total_failed
          /\ child' = "none"
          /\ exit_status' = -1]_vars
  /\ [](Ended /\ tally.found = 0 => exit_status = 0)

\* the last directory has no src/, two scripts of others passed: status 0
C28_Witness ==
  /\ Ended
  /\ tally.seen = [dir |-> TRUE, src |-> FALSE, n |-> 0]
  /\ tally.found = 2
  /\ total_success = 2
  /\ exit_status = 0

\* C29: main always comes to its end: every run of the driver, in which the
\* timeout cuts off a child that does not exit by itself, prints the summary.
C29_Terminates == <>Ended

\* main has ended although the last child had to be cut off
C29_Witness ==
  /\ Ended
  /\ tally.calls = 2
  /\ last.outcome = TimeoutExpired
  /\ tally.passed = 0

====
